---- MODULE Spec2Model ----
(***************************************************************************)
(* Model of the Amazon Fresh Fetch agent: the five-stage LangGraph         *)
(* pipeline (planner -> extractor -> shopper -> human_review -> checkout)  *)
(* compiled with a MemorySaver checkpointer and interrupt_before           *)
(* ["shopper", "checkout"], the Streamlit callers that start, patch and    *)
(* resume it, and the procurement loop of shopper_node with the browser    *)
(* tool it drives.  Money is counted in cents.                             *)
(***************************************************************************)
EXTENDS Integers, Sequences, FiniteSets, TLC

VARIABLES
    ckpt,     \* the MemorySaver's record for the one thread_id
    pc,       \* position of the astream call in progress
    resuming, \* the call was astream(None) and has not yet run a node
    sh,       \* locals of the shopper_node invocation in progress
    browser,  \* st.session_state.browser_tool
    hist,     \* history: stages completed, outcome of the last call
    calls,    \* history: catalog calls of the current shopper execution
    other,    \* a second astream call on the same thread_id (ConcSpec)
    db,       \* the SQLite file of DBManager and the last value it returned
    store     \* the results page the browser shows and the tool's last answer

vars == <<ckpt, pc, resuming, sh, browser, hist, calls, other, db, store>>

----------------------------------------------------------------------------
(* Bounds of the model *)

\* longest shopping list handed to shopper_node in ShopperSpec
MaxList == 2
\* longest conversation (messages channel) in Spec
MaxMessages == 2

\* the pieces of a completion text
MaxText == 3
\* the pieces of the extractor's reply
MaxReply == 4
\* the writing calls made on one database
MaxSaves == 3
\* the largest limit passed to get_recent_plans beside the default
MaxLimit == 2
\* the characters of a price text
MaxPrice == 4

\* item descriptors and query strings
Items == {"apple", "beef"}
\* the shopping lists the extractor and the user's edit write in Spec
PlanLists == {<<>>, <<"apple">>}
OptimizedQuery == "organic"

\* budget_limit values (cents) the sidebar supplies
Budgets == {0, 1000}
\* total_cost values (cents) a state handed to shopper_node may hold
EntryTotals == {0, 500, 1000}

----------------------------------------------------------------------------
(* Text of prices: strings are sequences of one-character strings *)

DigitChars == <<"0", "1", "2", "3", "4", "5", "6", "7", "8", "9">>

IsDigit(c) == \E d \in 1..10 : DigitChars[d] = c

DigitVal(c) == (CHOOSE d \in 1..10 : DigitChars[d] = c) - 1

RECURSIVE Remove(_, _)
\* str.replace(c, "")
Remove(s, c) ==
    IF s = <<>> THEN <<>>
    ELSE IF Head(s) = c THEN Remove(Tail(s), c)
    ELSE <<Head(s)>> \o Remove(Tail(s), c)

RECURSIVE Strip(_)
\* str.strip(): blanks are dropped at both ends
Strip(s) ==
    IF s = <<>> THEN <<>>
    ELSE IF Head(s) = " " THEN Strip(Tail(s))
    ELSE IF s[Len(s)] = " " THEN Strip(SubSeq(s, 1, Len(s) - 1))
    ELSE s

Contains(s, c) == \E k \in 1..Len(s) : s[k] = c

RECURSIVE DigitsValue(_)
DigitsValue(s) ==
    IF s = <<>> THEN 0
    ELSE 10 * DigitsValue(SubSeq(s, 1, Len(s) - 1)) + DigitVal(s[Len(s)])

AllDigits(s) == \A k \in 1..Len(s) : IsDigit(s[k])

DotAt(s) == CHOOSE k \in 1..Len(s) : s[k] = "."

\* float(s) returns: over the alphabet of the model's price texts (digits,
\* point, "$", ",", blank) that is a run of digits with at most one point in
\* it; the model keeps at most two digits after the point. Otherwise float
\* raises ValueError.
FloatOk(s) ==
    IF Contains(s, ".")
    THEN LET k == DotAt(s)
             whole == SubSeq(s, 1, k - 1)
             frac == SubSeq(s, k + 1, Len(s))
         IN  /\ AllDigits(whole) /\ AllDigits(frac)
             /\ Len(whole) + Len(frac) > 0
             /\ Len(frac) <= 2
    ELSE s # <<>> /\ AllDigits(s)

\* the value of float(s) in cents
FloatCents(s) ==
    IF Contains(s, ".")
    THEN LET k == DotAt(s)
             whole == SubSeq(s, 1, k - 1)
             frac == SubSeq(s, k + 1, Len(s))
         IN  100 * DigitsValue(whole)
               + (IF Len(frac) = 1 THEN 10 * DigitsValue(frac) ELSE DigitsValue(frac))
    ELSE 100 * DigitsValue(s)

\* txt.replace("$", "").replace(",", "").strip()
CleanPrice(txt) == Strip(Remove(Remove(txt, "$"), ","))

RECURSIVE NatChars(_)
NatChars(n) ==
    IF n < 10 THEN <<DigitChars[n + 1]>>
    ELSE NatChars(n \div 10) \o <<DigitChars[(n % 10) + 1]>>

\* f"{price:.2f}" of a non-negative amount of cents
Format2f(cents) ==
    NatChars(cents \div 100) \o <<".">>
        \o <<DigitChars[((cents % 100) \div 10) + 1], DigitChars[(cents % 10) + 1]>>

----------------------------------------------------------------------------
(* The browser tool (AmazonFreshBrowser) and the results page *)

\* results[:5]
TopK == 5
\* results[:3]
BruteForceTop == 3

NoElement == <<"<none>">>

Card(title, price_text) == [title |-> title, price_text |-> price_text]

\* a sponsored tile: no h2 element, so reading its title raises
SponsoredCard == Card(NoElement, <<"$", "9", ".", "9", "9">>)
AppleCard == Card(<<"Gala Apples">>, <<"$", "3", ".", "0", "0">>)
BeefCard == Card(<<"Ground Beef">>, <<" ", "$", "1", "2", ".", "0", "0">>)
\* a card that shows no price element
UnpricedCard == Card(<<"Loose Carrots">>, NoElement)

\* the result pages the store serves for a query
Pages ==
    { <<>>,
      <<AppleCard>>,
      <<SponsoredCard, BeefCard, UnpricedCard>> }

\* the price_text local of search_and_get_options
PriceText(card) ==
    IF card.price_text = NoElement THEN <<"0", ".", "0", "0">> ELSE card.price_text

\* the body of the loop of search_and_get_options raises for this card
ScrapeRaises(card) ==
    \/ card.title = NoElement
    \/ /\ Contains(PriceText(card), "$")
       /\ ~FloatOk(CleanPrice(PriceText(card)))

\* the dict search_and_get_options appends for results[i] (i counts from 0)
Option(i, card) ==
    [ index |-> i,
      title |-> card.title,
      price_str |-> Strip(PriceText(card)),
      price |-> IF Contains(PriceText(card), "$")
                THEN FloatCents(CleanPrice(PriceText(card)))
                ELSE 0 ]

RECURSIVE BuildOptions(_, _)
\* the options built from the cards results[i..] of the page
BuildOptions(page, i) ==
    IF i >= Len(page) \/ i >= TopK THEN <<>>
    ELSE IF ScrapeRaises(page[i + 1]) THEN BuildOptions(page, i + 1)
    ELSE <<Option(i, page[i + 1])>> \o BuildOptions(page, i + 1)

\* AmazonFreshBrowser.search_and_get_options: with the page closed every
\* locator call raises and the outer handler returns []
search_and_get_options(page_state, page) ==
    IF page_state = "open" THEN BuildOptions(page, 0) ELSE <<>>

\* AmazonFreshBrowser.add_specific_item: clickable says whether the card at
\* that index shows a visible Add-to-cart button
add_specific_item(page_state, page, index, clickable) ==
    /\ page_state = "open"
    /\ index < Len(page)
    /\ clickable

\* the price search_and_add reads from a card
BruteForcePrice(card) ==
    IF card.price_text # NoElement /\ FloatOk(CleanPrice(card.price_text))
    THEN FloatCents(CleanPrice(card.price_text))
    ELSE 0

\* AmazonFreshBrowser.search_and_add: button is the position (from 1) of the
\* first card of the page with a visible Add-to-cart button, 0 for none
search_and_add(page_state, page, button) ==
    IF page_state # "open" THEN [status |-> "ERROR", price |-> 0]
    ELSE IF page = <<>> THEN [status |-> "NOT_FOUND", price |-> 0]
    ELSE IF button >= 1 /\ button <= Len(page) /\ button <= BruteForceTop
    THEN [status |-> "ADDED", price |-> BruteForcePrice(page[button])]
    ELSE [status |-> "NOT_FOUND", price |-> 0]

\* AmazonFreshBrowser.trigger_checkout: page.goto is outside the try, so it
\* raises when the page is closed; otherwise it returns found
trigger_checkout(page_state, found) ==
    IF page_state = "open"
    THEN [raised |-> FALSE, result |-> found]
    ELSE [raised |-> TRUE, result |-> FALSE]

(* The browser tool on one card *)

SeqsUpTo(S, n) == UNION {[1..k -> S] : k \in 0..n}

PriceChars == {"$", ",", ".", "1", "5", " "}

\* "$1,234.56"
ThousandsText == <<"$", "1", ",", "2", "3", "4", ".", "5", "6">>

\* the text has more digits after the point than the model's cents hold
FinerThanCents(s) ==
    /\ Contains(s, ".")
    /\ AllDigits(Remove(s, "."))
    /\ Len(s) - DotAt(s) > 2

\* the texts of the price element of a card
PriceTexts ==
    {t \in SeqsUpTo(PriceChars, MaxPrice) : ~FinerThanCents(CleanPrice(t))}
        \cup {ThousandsText}

\* no search has been made
NoStore == [results |-> <<>>, ret |-> [op |-> "none"]]

\* search_and_get_options on the page shown
ScrapeOptions ==
    /\ store.ret.op = "none"
    /\ store' = [store EXCEPT
                   !.ret = [ op |-> "search_and_get_options",
                             options |-> search_and_get_options(browser.page,
                                                                store.results) ]]
    /\ UNCHANGED <<ckpt, pc, resuming, sh, browser, hist, calls, other, db>>

\* search_and_add on the page shown, whose first card has a visible button
BruteForceAdd ==
    /\ store.ret.op = "none"
    /\ store' = [store EXCEPT
                   !.ret = [ op |-> "search_and_add",
                             bf_result |-> search_and_add(browser.page,
                                                          store.results, 1) ]]
    /\ UNCHANGED <<ckpt, pc, resuming, sh, browser, hist, calls, other, db>>

\* the next search: the answer is dropped
NextSearch ==
    /\ store.ret.op # "none"
    /\ store' = [store EXCEPT !.ret = [op |-> "none"]]
    /\ UNCHANGED <<ckpt, pc, resuming, sh, browser, hist, calls, other, db>>

----------------------------------------------------------------------------
(* shopper_node: the procurement loop *)

Min(a, b) == IF a < b THEN a ELSE b

\* the suffixes shopper_node appends to an item it reports missing
BudgetCutSuffix == " (Budget Cut)"
NoGoodMatchSuffix == " (No good match)"

\* missing.append(f"{original_item} (Budget Cut)")
BudgetCutEntry(original_item) == <<original_item, BudgetCutSuffix>>
\* missing.append(original_item)
NotFoundEntry(original_item) == <<original_item>>
\* an entry that does not say why the item is missing
UnmarkedEntry(original_item) == <<original_item>>

\* missing.append(f"{original_item} (No good match)")
NoGoodMatchEntry(original_item) == <<original_item, NoGoodMatchSuffix>>

\* cart.append(f"{chosen['title']} (${chosen['price_str']})")
SmartCartEntry(chosen) == chosen.title \o <<" ($">> \o chosen.price_str \o <<")">>
\* cart.append(f"{original_item} (${bf_result['price']:.2f})")
FallbackCartEntry(original_item, price) ==
    <<original_item, " ($">> \o Format2f(price) \o <<")">>

\* the integers the selection reply can hold (int(re.search(...).group()))
Choices == -1..3

\* the positions search_and_add can find its first visible button at
Buttons == 0..2

\* the gate with the comparison turned round
BudgetGateInverted(current_total, limit) == current_total <= limit

\* the gate with > in place of >=
BudgetGateStrict(current_total, limit) == current_total > limit

\* the gate at the head of the loop body
BudgetGate(current_total, limit) == current_total >= limit

\* a retry that does not compare the query with the item
RetriesAlways(options, search_term, original_item) == options = <<>>

\* the second search is made
RetriesOriginal(options, search_term, original_item) ==
    options = <<>> /\ search_term # original_item

\* the guard of options[choice_idx]
ChoiceInRange(choice_idx, options) ==
    choice_idx >= 0 /\ choice_idx < Len(options)

\* The result of one iteration of the loop, from the locals loc: the lists
\* and the total after it, whether it raised, where the item went, the
\* catalog calls it made (trail), the number of options its last search
\* gave (hits) and its first search gave (first), the queries it searched
\* for (asked), the integer the selection gave (choice, <<>> for none), what
\* add_specific_item returned (success, <<>> for no call) and the query it
\* passed to search_and_add with the answer (bf, <<>> for no call), and the
\* card add_specific_item clicked (put, <<>> for none).
Kept(loc) ==
    [ cart |-> loc.cart, missing |-> loc.missing,
      current_total |-> loc.current_total,
      raised |-> FALSE, dest |-> "missing", trail |-> <<>>, hits |-> 0,
      first |-> 0, asked |-> <<>>, choice |-> <<>>, success |-> <<>>,
      bf |-> <<>>, put |-> <<>> ]

\* a fallback that searches for the item's own text
FallbackQueryOriginal(original_item, search_term) == original_item

\* the argument of search_and_add
FallbackQuery(original_item, search_term) == search_term

\* a fallback that calls search_and_add a second time
FallbackAddTwice(loc, original_item, search_term, searched, bf_result) ==
    [Kept(loc) EXCEPT
       !.cart = IF bf_result.status = "ADDED"
                THEN Append(@, FallbackCartEntry(original_item, bf_result.price))
                ELSE @,
       !.missing = IF bf_result.status = "ADDED" THEN @
                   ELSE Append(@, NotFoundEntry(original_item)),
       !.current_total = IF bf_result.status = "ADDED" THEN @ + bf_result.price ELSE @,
       !.dest = IF bf_result.status = "ADDED" THEN "cart" ELSE "missing",
       !.trail = searched \o <<"addToCart", "searchAndAdd", "searchAndAdd">>,
       !.success = <<FALSE>>,
       !.bf = <<[ query |-> search_term, status |-> bf_result.status,
                  price |-> bf_result.price ]>>]

\* the else branch of "if success": search_and_add(search_term)
FallbackAdd(loc, original_item, search_term, searched, bf_result) ==
    IF bf_result.status = "ADDED"
    THEN [Kept(loc) EXCEPT
            !.cart = Append(@, FallbackCartEntry(original_item, bf_result.price)),
            !.current_total = @ + bf_result.price,
            !.dest = "cart",
            !.trail = searched \o <<"addToCart", "searchAndAdd">>,
            !.success = <<FALSE>>,
            !.bf = <<[ query |-> FallbackQuery(original_item, search_term),
                       status |-> bf_result.status,
                       price |-> bf_result.price ]>>]
    ELSE [Kept(loc) EXCEPT
            !.missing = Append(@, NotFoundEntry(original_item)),
            !.trail = searched \o <<"addToCart", "searchAndAdd">>,
            !.success = <<FALSE>>,
            !.bf = <<[ query |-> FallbackQuery(original_item, search_term),
                       status |-> bf_result.status,
                       price |-> bf_result.price ]>>]

\* the answers search_and_add can give
BruteForceResults(page_state) ==
    {search_and_add(page_state, bf_page, button) : bf_page \in Pages, button \in Buttons}

\* from "if choice_idx >= 0 and choice_idx < len(options)" on; page is the
\* results page the browser shows
Commit(loc, page_state, original_item, search_term, options, page, searched, choice_idx) ==
    IF ChoiceInRange(choice_idx, options)
    THEN
        LET chosen == options[choice_idx + 1]
        IN  UNION {
              IF add_specific_item(page_state, page, choice_idx, clickable)
              THEN { [Kept(loc) EXCEPT
                        !.cart = Append(@, SmartCartEntry(chosen)),
                        !.current_total = @ + chosen.price,
                        !.dest = "cart",
                        !.trail = searched \o <<"addToCart">>,
                        !.success = <<TRUE>>,
                        !.put = <<page[choice_idx + 1]>>] }
              ELSE { FallbackAdd(loc, original_item, search_term, searched,
                                 bf_result) :
                       bf_result \in BruteForceResults(page_state) }
              : clickable \in BOOLEAN }
    ELSE { [Kept(loc) EXCEPT
              !.missing = Append(@, NoGoodMatchEntry(original_item)),
              !.trail = searched] }

\* from the second "if not options" on: the selection call, which is not
\* inside a try, either raises or yields an integer
Select(loc, page_state, original_item, search_term, options, page, searched) ==
    { [r EXCEPT !.hits = Len(options)] : r \in
        IF options = <<>>
        THEN { [Kept(loc) EXCEPT
                  !.missing = Append(@, NotFoundEntry(original_item)),
                  !.trail = searched] }
        ELSE { [Kept(loc) EXCEPT !.raised = TRUE, !.dest = "none", !.trail = searched] }
             \cup UNION { { [c EXCEPT !.choice = <<choice_idx>>] : c \in
                              Commit(loc, page_state, original_item, search_term,
                                     options, page, searched, choice_idx) }
                          : choice_idx \in Choices } }

\* The results one iteration of the for loop of shopper_node can have for
\* the pair (original_item, search_term), with the browser page in
\* page_state, over every answer of the store and of the selection model.
ProcessItem(loc, page_state, original_item, search_term) ==
    IF BudgetGate(loc.current_total, loc.limit)
    THEN { [Kept(loc) EXCEPT !.missing = Append(@, BudgetCutEntry(original_item))] }
    ELSE UNION {
           LET first == search_and_get_options(page_state, page1)
           IN  IF RetriesOriginal(first, search_term, original_item)
               THEN UNION {
                      { [r EXCEPT !.first = Len(first),
                                  !.asked = <<search_term, original_item>>] : r \in
                          Select(loc, page_state, original_item, search_term,
                                 search_and_get_options(page_state, page2), page2,
                                 <<"search", "search">>) }
                      : page2 \in Pages }
               ELSE { [r EXCEPT !.first = Len(first),
                                !.asked = <<search_term>>] : r \in
                        Select(loc, page_state, original_item, search_term, first,
                               page1, <<"search">>) }
           : page1 \in Pages }

\* what json.loads(content)["queries"] can be for a shopping list: the list
\* itself, every item rewritten, one query too few, one query too many
QueryOutputs(shopping_list) ==
    LET n == Len(shopping_list)
        rewritten == [k \in 1..n |-> OptimizedQuery]
    IN  { shopping_list,
          rewritten,
          SubSeq(rewritten, 1, n - 1),
          Append(rewritten, OptimizedQuery) }

\* the number of pairs zip(shopping_list, optimized_queries) yields
ZipLen(shopping_list, optimized_queries) ==
    Min(Len(shopping_list), Len(optimized_queries))

----------------------------------------------------------------------------
(* The compiled graph (create_workflow) and its checkpointer *)

END == "__end__"

\* workflow.set_entry_point
EntryPoint == "planner"

\* the edges without the review stage between shopper and checkout
EdgeSkipReview ==
    [ planner |-> "extractor",
      extractor |-> "shopper",
      shopper |-> "checkout",
      human_review |-> "checkout",
      checkout |-> END ]

\* workflow.add_edge
Edge ==
    [ planner |-> "extractor",
      extractor |-> "shopper",
      shopper |-> "human_review",
      human_review |-> "checkout",
      checkout |-> END ]

Stages == DOMAIN Edge

\* an interrupt set without the shopper
InterruptBeforeCheckoutOnly == {"checkout"}

\* compile(..., interrupt_before=[...])
InterruptBefore == {"shopper", "checkout"}

(* Text of completions: a text is a sequence of pieces, each a fence *)
(* marker, a line break, a JSON document or prose                     *)

\* the three backquotes and the word json that open a fenced block
FenceOpen == "<fence>json"

\* the three backquotes that close a fenced block
FenceClose == "<fence>"

NL == "\n"

PlanText == "{\"schedule\": [1]}"

NotJson == "This is not valid JSON"

DefaultPlanText == "{\"schedule\": []}"

Pieces == {FenceOpen, FenceClose, NL, PlanText, NotJson}

\* response.content of the planner's chain.ainvoke
Completions == SeqsUpTo(Pieces, MaxText)

\* the completions the planner gets in Spec
PlanCompletions == {<<FenceOpen, NL, PlanText>>, <<NotJson>>}

RECURSIVE StripText(_)
\* str.strip() on a text: line breaks are dropped at both ends
StripText(text) ==
    IF text = <<>> THEN <<>>
    ELSE IF Head(text) = NL THEN StripText(Tail(text))
    ELSE IF text[Len(text)] = NL THEN StripText(SubSeq(text, 1, Len(text) - 1))
    ELSE text

RECURSIVE FenceSub(_, _)
\* re.sub(r"^```json|```$", "", text, flags=re.MULTILINE) from piece i on:
\* an opening marker goes where a line starts, a closing one where a line
\* ends
FenceSub(text, i) ==
    IF i > Len(text) THEN <<>>
    ELSE IF \/ text[i] = FenceOpen /\ (i = 1 \/ text[i - 1] = NL)
            \/ text[i] = FenceClose /\ (i = Len(text) \/ text[i + 1] = NL)
         THEN FenceSub(text, i + 1)
    ELSE <<text[i]>> \o FenceSub(text, i + 1)

\* json.loads(content) returns: the text is one JSON document, with line
\* breaks around it at most
JsonLoads(content) ==
    \E doc \in {PlanText, DefaultPlanText} : Remove(content, NL) = <<doc>>

\* json.dumps({"schedule": []})
DefaultPlan == <<DefaultPlanText>>

\* the text of the completion without its fence
PlannerContent(text) == StripText(FenceSub(StripText(text), 1))

\* a planner that returns the text without parsing it
plan_json_unparsed(text) == PlannerContent(text)

\* plan_json_str of planner_node
plan_json_str(text) ==
    IF JsonLoads(PlannerContent(text)) THEN PlannerContent(text)
    ELSE DefaultPlan

(* Text of the extractor's completion: a text is a sequence of pieces, each *)
(* a comma, a blank, a line break or a word                               *)

Comma == ","

Blank == " "

ReplyPieces == {Comma, Blank, NL} \cup Items

\* response.content of the extractor's ainvoke
Replies == SeqsUpTo(ReplyPieces, MaxReply)

\* the replies the extractor gets in Spec
PlanReplies == {<<>>, <<"apple">>}

RECURSIVE Split(_, _)
\* str.split(sep): the texts between the separators, empty ones included
Split(text, sep) ==
    IF ~Contains(text, sep) THEN <<text>>
    ELSE LET k == CHOOSE k \in 1..Len(text) :
                     /\ text[k] = sep
                     /\ \A j \in 1..(k - 1) : text[j] # sep
         IN  <<SubSeq(text, 1, k - 1)>>
               \o Split(SubSeq(text, k + 1, Len(text)), sep)

IsSpace(c) == c \in {Blank, NL}

RECURSIVE DropSpace(_)
DropSpace(s) ==
    IF s # <<>> /\ IsSpace(Head(s)) THEN DropSpace(Tail(s)) ELSE s

RECURSIVE CollapseSpace(_)
\* re.sub(r"\s+", " ", i): every run of blanks and line breaks becomes one
\* blank
CollapseSpace(s) ==
    IF s = <<>> THEN <<>>
    ELSE IF IsSpace(Head(s))
         THEN <<Blank>> \o CollapseSpace(DropSpace(Tail(s)))
    ELSE <<Head(s)>> \o CollapseSpace(Tail(s))

RECURSIVE JoinText(_)
\* the string a text spells
JoinText(s) == IF s = <<>> THEN "" ELSE Head(s) \o JoinText(Tail(s))

RECURSIVE CleanItems(_)
\* the loop of extractor_node over raw_list
CleanItems(raw_list) ==
    IF raw_list = <<>> THEN <<>>
    ELSE LET clean == Strip(CollapseSpace(Head(raw_list)))
         IN  (IF clean # <<>> THEN <<JoinText(clean)>> ELSE <<>>)
               \o CleanItems(Tail(raw_list))

\* items of extractor_node
extractor_items(response) == CleanItems(Split(response, Comma))

\* the channels of AgentState before any write
EmptyValues ==
    [ messages |-> <<>>,
      meal_plan_json |-> <<>>,
      shopping_list |-> <<>>,
      cart_items |-> <<>>,
      missing_items |-> <<>>,
      user_approved |-> FALSE,
      total_cost |-> 0,
      budget_limit |-> 0,
      pantry_items |-> "" ]

\* a fresh MemorySaver: no checkpoint for the thread (error: the pending
\* stage has failed since this checkpoint was written)
NoCheckpoint ==
    [exists |-> FALSE, values |-> EmptyValues, next |-> END, error |-> FALSE]

\* what the caller computes from app.get_state(config) of a checkpoint:
\* snapshot.next[0] if snapshot.next else None
PendingStage(c) == IF c.exists /\ c.next # END THEN c.next ELSE "None"

\* snapshot.next[0] without the test for an empty snapshot.next
current_step_unchecked == ckpt.next

\* current_step of the script, read from the session's checkpoint
current_step == PendingStage(ckpt)


NoShopper ==
    [ shopping_list |-> <<>>, optimized_queries |-> <<>>, i |-> 0,
      cart |-> <<>>, missing |-> <<>>, current_total |-> 0, limit |-> 0 ]

\* history of one shopper execution: the catalog calls of the iteration
\* just made (trail), one entry per iteration (log), the number of catalog
\* calls (n) and of hand-offs (checkout), the total at entry, the price
\* committed last, the number of add_specific_item and search_and_add calls
\* (adds), whether every search so far returned no option (empty), and of
\* the iteration just made the options of its first and of its last search,
\* the queries searched for, the selection, the answer of add_specific_item,
\* the query and answer of search_and_add and the card put in the cart
NoCalls ==
    [ trail |-> <<>>, log |-> <<>>, n |-> 0, checkout |-> 0,
      entry |-> 0, last |-> 0, adds |-> 0, empty |-> TRUE,
      first |-> 0, hits |-> 0, asked |-> <<>>, choice |-> <<>>,
      success |-> <<>>, bf |-> <<>>, put |-> <<>> ]

\* history of the engine: the stages the call in progress (or the last
\* call) completed, those completed since the last Start, how the last call
\* ended, which call it was and the stage it began at, and whether the
\* caller has patched the list since the last Start ("none", or "same" or
\* "changed" by the last patch)
NoHist ==
    [ call |-> <<>>, run |-> <<>>, outcome |-> "none", kind |-> "none",
      from |-> "None", edited |-> "none", completion |-> <<>> ]

(* DBManager: the settings table *)

Keys == {"budget", "pantry"}

SettingValues == {"", "100.0", "200.0"}

Defaults == {"", "200.0"}

\* the tables after create_tables on a new file; ret is the value the last
\* call returned, log the calls made so far
NoDb ==
    [ settings |-> {}, meal_plans |-> <<>>, seq |-> 0,
      ret |-> [op |-> "none"], log |-> <<>> ]

\* INSERT OR IGNORE: a row whose key is taken is not written
InsertOrIgnore(rows, key, value) ==
    IF \E r \in rows : r.key = key THEN rows
    ELSE rows \cup {[key |-> key, value |-> value]}

\* REPLACE INTO settings (key, value) with key the PRIMARY KEY: the row that
\* holds the key is deleted and the new row inserted
ReplaceInto(rows, key, value) ==
    {r \in rows : r.key # key} \cup {[key |-> key, value |-> value]}

\* get_setting: SELECT value FROM settings WHERE key=?, fetchone, and
\* result[0] if result else default
get_setting(rows, key, default) ==
    LET result == {r \in rows : r.key = key}
    IN  IF result = {} THEN default
        ELSE (CHOOSE r \in result : TRUE).value

\* db.save_setting(key, value)
SaveSetting ==
    /\ Len(db.log) < MaxSaves
    /\ \E key \in Keys, value \in SettingValues :
         db' = [db EXCEPT
                  !.settings = ReplaceInto(@, key, value),
                  !.ret = [op |-> "save_setting"],
                  !.log = Append(@, [op |-> "save_setting", key |-> key,
                                     value |-> value])]
    /\ UNCHANGED <<ckpt, pc, resuming, sh, browser, hist, calls, other, store>>

\* db.get_setting(key, default)
GetSetting ==
    /\ \E key \in Keys, default \in Defaults :
         db' = [db EXCEPT
                  !.ret = [op |-> "get_setting", key |-> key,
                           default |-> default,
                           value |-> get_setting(db.settings, key, default)]]
    /\ UNCHANGED <<ckpt, pc, resuming, sh, browser, hist, calls, other, store>>

(* DBManager: the meal_plans table *)

Prompts == {"Prompt 0", "Prompt 1"}

SavedLists == {<<>>, <<"apple">>, <<"apple", "beef">>}

\* get_recent_plans(self, limit=5)
DefaultLimit == 5

Limits == (0..MaxLimit) \cup {DefaultLimit}

Quote == "\""

RECURSIVE DumpItems(_)
DumpItems(list) ==
    IF list = <<>> THEN <<>>
    ELSE <<Quote, Head(list), Quote>>
           \o (IF Tail(list) = <<>> THEN <<>> ELSE <<Comma, Blank>>)
           \o DumpItems(Tail(list))

\* json.dumps(shopping_list) of a list of texts
dumps_list(list) == <<"[">> \o DumpItems(list) \o <<"]">>

RECURSIVE LoadItems(_)
\* the texts between the quotes of the elements
LoadItems(parts) ==
    IF parts = <<>> THEN <<>>
    ELSE <<Remove(Remove(Head(parts), Blank), Quote)[1]>>
           \o LoadItems(Tail(parts))

\* json.loads(r[4]) of an array of texts
loads_list(text) ==
    LET body == SubSeq(text, 2, Len(text) - 1)
    IN  IF body = <<>> THEN <<>> ELSE LoadItems(Split(body, Comma))

RECURSIVE OrderByIdAsc(_)
\* ORDER BY id
OrderByIdAsc(rows) ==
    IF rows = {} THEN <<>>
    ELSE LET first == CHOOSE r \in rows : \A q \in rows : r.id <= q.id
         IN  <<first>> \o OrderByIdAsc(rows \ {first})

RECURSIVE OrderByIdDesc(_)
\* ORDER BY id DESC
OrderByIdDesc(rows) ==
    IF rows = {} THEN <<>>
    ELSE LET first == CHOOSE r \in rows : \A q \in rows : r.id >= q.id
         IN  <<first>> \o OrderByIdDesc(rows \ {first})

\* LIMIT ?
Limit(rows, limit) ==
    IF limit < 0 \/ limit >= Len(rows) THEN rows ELSE SubSeq(rows, 1, limit)

\* get_recent_plans: the rows selected, each made a dict
get_recent_plans(rows, limit) ==
    LET fetchall == Limit(OrderByIdDesc({rows[k] : k \in 1..Len(rows)}), limit)
    IN  [k \in 1..Len(fetchall) |->
           [ id |-> fetchall[k].id,
             prompt |-> fetchall[k].prompt,
             json |-> fetchall[k].plan_json,
             list |-> loads_list(fetchall[k].shopping_list) ]]

\* db.save_plan(prompt, plan_json, shopping_list): the id is one more than
\* the largest id ever given (AUTOINCREMENT)
SavePlan ==
    /\ Len(db.log) < MaxSaves
    /\ \E prompt \in Prompts, shopping_list \in SavedLists :
         db' = [db EXCEPT
                  !.meal_plans = Append(@, [ id |-> db.seq + 1,
                                             prompt |-> prompt,
                                             plan_json |-> DefaultPlan,
                                             shopping_list |->
                                                dumps_list(shopping_list) ]),
                  !.seq = @ + 1,
                  !.ret = [op |-> "save_plan"],
                  !.log = Append(@, [op |-> "save_plan", prompt |-> prompt,
                                     plan_json |-> DefaultPlan,
                                     shopping_list |-> shopping_list])]
    /\ UNCHANGED <<ckpt, pc, resuming, sh, browser, hist, calls, other, store>>

\* db.get_recent_plans(limit)
GetRecentPlans ==
    /\ \E limit \in Limits :
         db' = [db EXCEPT
                  !.ret = [op |-> "get_recent_plans", limit |-> limit,
                           plans |-> get_recent_plans(db.meal_plans, limit)]]
    /\ UNCHANGED <<ckpt, pc, resuming, sh, browser, hist, calls, other, store>>

\* db.delete_all_plans()
DeleteAllPlans ==
    /\ Len(db.log) < MaxSaves
    /\ db' = [db EXCEPT !.meal_plans = <<>>,
                        !.ret = [op |-> "delete_all_plans"],
                        !.log = Append(@, [op |-> "delete_all_plans"])]
    /\ UNCHANGED <<ckpt, pc, resuming, sh, browser, hist, calls, other, store>>

\* no second call is in progress
NoOther == [pc |-> "idle", shopping_list |-> <<>>]

\* the engine may execute the stage now: it is the pending one, and it is
\* not held by interrupt_before (a resumed call passes the interrupt it
\* stopped at)
CanRun(stage) ==
    /\ pc = "loop"
    /\ ckpt.exists
    /\ ckpt.next = stage
    /\ (stage \in InterruptBefore => resuming)

\* the checkpoint if the update replaced the state: the channels the stage
\* did not return are reset
PersistReplace(stage, update) ==
    [ exists |-> TRUE,
      values |-> [ch \in DOMAIN ckpt.values |->
                    IF ch \in DOMAIN update THEN update[ch] ELSE EmptyValues[ch]],
      next |-> Edge[stage],
      error |-> FALSE ]

\* the checkpoint after the stage returned update: the update's channels are
\* written, the others kept, and the next stage becomes pending
Persist(stage, update) ==
    [ exists |-> TRUE,
      values |-> [ch \in DOMAIN ckpt.values |->
                    IF ch \in DOMAIN update THEN update[ch] ELSE ckpt.values[ch]],
      next |-> Edge[stage],
      error |-> FALSE ]

Completed(stage) ==
    [hist EXCEPT !.call = Append(@, stage), !.run = Append(@, stage),
                 !.completion = <<>>]

\* app.astream(initial_state, config): the "Generate Plan" button
Start ==
    /\ UNCHANGED <<other, db, store>>
    /\ pc = "idle"
    /\ Len(ckpt.values.messages) < MaxMessages
    /\ \E budget \in Budgets :
         ckpt' = [ exists |-> TRUE,
                   values |-> [ckpt.values EXCEPT
                                 !.messages = Append(@, "human"),
                                 !.budget_limit = budget,
                                 !.pantry_items = "pantry",
                                 !.total_cost = 0],
                   next |-> EntryPoint,
                   error |-> FALSE ]
    /\ pc' = "loop"
    /\ resuming' = FALSE
    /\ hist' = [NoHist EXCEPT !.outcome = "running", !.kind = "start",
                              !.from = EntryPoint]
    /\ calls' = NoCalls
    /\ UNCHANGED <<sh, browser>>

\* update_state applied as if the pending stage had returned the values
UpdateStateAsShopper ==
    /\ UNCHANGED <<other, db, store>>
    /\ pc = "idle"
    /\ current_step = "shopper"
    /\ \E final_list \in PlanLists :
         /\ ckpt' = [ckpt EXCEPT !.values.shopping_list = final_list,
                                 !.next = Edge["shopper"],
                                 !.error = FALSE]
         /\ hist' = [hist EXCEPT !.edited =
                        IF final_list = ckpt.values.shopping_list
                        THEN "same" ELSE "changed"]
    /\ UNCHANGED <<pc, resuming, sh, browser, calls>>

\* app.update_state(config, {"shopping_list": final_list})
UpdateState ==
    /\ UNCHANGED <<other, db, store>>
    /\ pc = "idle"
    /\ current_step = "shopper"
    /\ \E final_list \in PlanLists :
         /\ ckpt' = [ckpt EXCEPT !.values.shopping_list = final_list,
                                 !.error = FALSE]
         /\ hist' = [hist EXCEPT !.edited =
                        IF final_list = ckpt.values.shopping_list
                        THEN "same" ELSE "changed"]
    /\ UNCHANGED <<pc, resuming, sh, browser, calls>>

\* app.astream(None, config)
Resume ==
    /\ UNCHANGED <<other, db, store>>
    /\ pc = "idle"
    /\ current_step # "None"
    /\ pc' = "loop"
    /\ resuming' = TRUE
    /\ hist' = [hist EXCEPT !.call = <<>>, !.outcome = "running",
                             !.kind = "resume", !.from = ckpt.next]
    /\ UNCHANGED <<ckpt, sh, browser, calls>>

\* the call stops before a stage of interrupt_before and returns
Interrupt ==
    /\ UNCHANGED <<other, db, store>>
    /\ pc = "loop"
    /\ ckpt.next \in InterruptBefore
    /\ ~resuming
    /\ pc' = "idle"
    /\ hist' = [hist EXCEPT !.outcome = "interrupted", !.completion = <<>>]
    /\ UNCHANGED <<ckpt, resuming, sh, browser, calls>>

\* the graph reached END and the call returns
Complete ==
    /\ UNCHANGED <<other, db, store>>
    /\ pc = "loop"
    /\ ckpt.next = END
    /\ pc' = "idle"
    /\ resuming' = FALSE
    /\ hist' = [hist EXCEPT !.outcome = "completed"]
    /\ UNCHANGED <<ckpt, sh, browser, calls>>

\* planner_node returns {"meal_plan_json": ..., "total_cost": 0.0}
Planner(completions) ==
    /\ UNCHANGED <<other, db, store>>
    /\ CanRun("planner")
    /\ \E response \in completions :
         /\ ckpt' = Persist("planner",
                            [meal_plan_json |-> plan_json_str(response),
                             total_cost |-> 0])
         /\ hist' = [Completed("planner") EXCEPT !.completion = response]
    /\ resuming' = FALSE
    /\ UNCHANGED <<pc, sh, browser, calls>>

RunPlanner == Planner(PlanCompletions)

\* extractor_node returns {"shopping_list": items}
Extractor(replies) ==
    /\ UNCHANGED <<other, db, store>>
    /\ CanRun("extractor")
    /\ \E response \in replies :
         /\ ckpt' = Persist("extractor",
                            [shopping_list |-> extractor_items(response)])
         /\ hist' = [Completed("extractor") EXCEPT !.completion = response]
    /\ resuming' = FALSE
    /\ UNCHANGED <<pc, sh, browser, calls>>

RunExtractor == Extractor(PlanReplies)

\* the text-completion call of planner_node or extractor_node raises: the
\* exception leaves astream, no channel is written and the checkpointer
\* keeps the exception as a pending write of the failed task
NodeRaises ==
    /\ UNCHANGED <<other, db, store>>
    /\ \E stage \in {"planner", "extractor"} : CanRun(stage)
    /\ pc' = "idle"
    /\ resuming' = FALSE
    /\ hist' = [hist EXCEPT !.outcome = "failed", !.completion = <<>>]
    /\ ckpt' = [ckpt EXCEPT !.error = TRUE]
    /\ UNCHANGED <<sh, browser, calls>>

\* shopper_node up to the loop: the locals, the browser start, the queries
ShopperEnter ==
    /\ UNCHANGED <<other, db, store>>
    /\ CanRun("shopper")
    /\ \E optimized_queries \in QueryOutputs(ckpt.values.shopping_list) :
         sh' = [ shopping_list |-> ckpt.values.shopping_list,
                 optimized_queries |-> optimized_queries,
                 i |-> 0,
                 cart |-> <<>>,
                 missing |-> <<>>,
                 current_total |-> ckpt.values.total_cost,
                 limit |-> ckpt.values.budget_limit ]
    /\ browser' = IF browser.page = "none" THEN [browser EXCEPT !.page = "open"]
                  ELSE browser
    /\ pc' = "shopper"
    /\ calls' = [NoCalls EXCEPT !.entry = ckpt.values.total_cost]
    /\ UNCHANGED <<ckpt, resuming, hist>>

\* the exception of a stage leaves the call after the partial results were
\* written and the next stage made pending
AbortAdvances ==
    /\ pc' = "idle"
    /\ resuming' = FALSE
    /\ sh' = NoShopper
    /\ hist' = [hist EXCEPT !.outcome = "failed"]
    /\ ckpt' = [Persist("shopper", [cart_items |-> sh.cart,
                                     missing_items |-> sh.missing])
                 EXCEPT !.error = TRUE]
    /\ UNCHANGED browser

\* the exception of a stage leaves astream: the channels and the pending
\* stage stay as they were, the exception is kept as a pending write
Abort ==
    /\ pc' = "idle"
    /\ resuming' = FALSE
    /\ sh' = NoShopper
    /\ hist' = [hist EXCEPT !.outcome = "failed"]
    /\ ckpt' = [ckpt EXCEPT !.error = TRUE]
    /\ UNCHANGED browser

\* the catalog call is add_specific_item or search_and_add
IsAddCall(call) == call \in {"addToCart", "searchAndAdd"}

\* one iteration of the loop of shopper_node
ShopItem ==
    /\ UNCHANGED <<other, db, store>>
    /\ pc = "shopper"
    /\ sh.i < ZipLen(sh.shopping_list, sh.optimized_queries)
    /\ LET original_item == sh.shopping_list[sh.i + 1]
           search_term == sh.optimized_queries[sh.i + 1]
       IN
       \E r \in ProcessItem(sh, browser.page, original_item, search_term) :
             /\ calls' = [calls EXCEPT
                            !.trail = r.trail,
                            !.n = @ + Len(r.trail),
                            !.adds = @ + Len(SelectSeq(r.trail, IsAddCall)),
                            !.empty = @ /\ r.hits = 0,
                            !.first = r.first,
                            !.hits = r.hits,
                            !.asked = r.asked,
                            !.choice = r.choice,
                            !.success = r.success,
                            !.bf = r.bf,
                            !.put = r.put,
                            !.last = IF r.dest = "cart"
                                     THEN r.current_total - sh.current_total
                                     ELSE @,
                            !.log = Append(@, [item |-> original_item,
                                               dest |-> r.dest])]
             /\ IF r.raised
                THEN Abort
                ELSE /\ sh' = [sh EXCEPT !.i = @ + 1,
                                         !.cart = r.cart,
                                         !.missing = r.missing,
                                         !.current_total = r.current_total]
                     /\ UNCHANGED <<ckpt, pc, resuming, browser, hist>>

\* the dict shopper_node returns; handoff is what trigger_checkout returned,
\* which the call statement discards
ShopperUpdate(cart, missing, current_total, handoff) ==
    [cart_items |-> cart, missing_items |-> missing, total_cost |-> current_total]

\* shopper_node after the loop: trigger_checkout, then the returned update
ShopperReturn ==
    /\ UNCHANGED <<other, db, store>>
    /\ pc = "shopper"
    /\ sh.i >= ZipLen(sh.shopping_list, sh.optimized_queries)
    /\ calls' = [calls EXCEPT !.trail = <<"checkout">>, !.n = @ + 1,
                              !.checkout = @ + 1,
                              !.first = 0, !.hits = 0, !.asked = <<>>,
                              !.choice = <<>>, !.success = <<>>,
                              !.bf = <<>>, !.put = <<>>]
    /\ \E found \in BOOLEAN :
         IF trigger_checkout(browser.page, found).raised
         THEN Abort
         ELSE /\ ckpt' = Persist("shopper",
                                 ShopperUpdate(sh.cart, sh.missing, sh.current_total,
                                               trigger_checkout(browser.page, found).result))
              /\ pc' = "loop"
              /\ resuming' = FALSE
              /\ hist' = Completed("shopper")
              /\ UNCHANGED <<sh, browser>>

\* human_review_node returns {}; the locals of shopper_node are gone
RunReview ==
    /\ UNCHANGED <<other, db, store>>
    /\ CanRun("human_review")
    /\ ckpt' = Persist("human_review", <<>>)
    /\ resuming' = FALSE
    /\ hist' = Completed("human_review")
    /\ sh' = NoShopper
    /\ UNCHANGED <<pc, browser, calls>>

\* checkout_node returns {"messages": [SystemMessage("Handoff.")]}; the
\* messages channel is reduced with operator.add
RunCheckout ==
    /\ UNCHANGED <<other, db, store>>
    /\ CanRun("checkout")
    /\ ckpt' = Persist("checkout",
                       [messages |-> Append(ckpt.values.messages, "system")])
    /\ resuming' = FALSE
    /\ hist' = Completed("checkout")
    /\ UNCHANGED <<pc, sh, browser, calls>>

\* the "Close" button: browser_tool.close() leaves self.page set
Close ==
    /\ UNCHANGED <<other, db, store>>
    /\ pc = "idle"
    /\ current_step = "checkout"
    /\ browser' = IF browser.page = "open" THEN [browser EXCEPT !.page = "closed"]
                  ELSE browser
    /\ UNCHANGED <<ckpt, pc, resuming, sh, hist, calls>>

\* the process is restarted: st.session_state is empty again, so
\* init_session_state builds a new graph, MemorySaver and browser tool
Restart ==
    /\ ckpt' = NoCheckpoint
    /\ pc' = "idle"
    /\ resuming' = FALSE
    /\ sh' = NoShopper
    /\ browser' = [page |-> "none"]
    /\ hist' = NoHist
    /\ calls' = NoCalls
    /\ other' = NoOther
    /\ UNCHANGED <<db, store>>

Init ==
    /\ ckpt = NoCheckpoint
    /\ pc = "idle"
    /\ resuming = FALSE
    /\ sh = NoShopper
    /\ browser = [page |-> "none"]
    /\ hist = NoHist
    /\ calls = NoCalls
    /\ other = NoOther
    /\ db = NoDb
    /\ store = NoStore

Next ==
    \/ Start
    \/ UpdateState
    \/ Resume
    \/ Interrupt
    \/ Complete
    \/ RunPlanner
    \/ RunExtractor
    \/ NodeRaises
    \/ ShopperEnter
    \/ ShopItem
    \/ ShopperReturn
    \/ RunReview
    \/ RunCheckout
    \/ Close
    \/ Restart

Spec == Init /\ [][Next]_vars

\* shopper_node called on a state a caller hands it
ShopperInit ==
    /\ \E shopping_list \in SeqsUpTo(Items, MaxList), total_cost \in EntryTotals,
          budget_limit \in Budgets :
         ckpt = [ exists |-> TRUE,
                  values |-> [EmptyValues EXCEPT
                                !.messages = <<"human">>,
                                !.meal_plan_json = DefaultPlan,
                                !.shopping_list = shopping_list,
                                !.total_cost = total_cost,
                                !.budget_limit = budget_limit],
                  next |-> "shopper",
                  error |-> FALSE ]
    /\ pc = "loop"
    /\ resuming = TRUE
    /\ sh = NoShopper
    /\ browser \in {[page |-> "none"], [page |-> "closed"]}
    /\ hist = [NoHist EXCEPT !.outcome = "running", !.kind = "resume",
                             !.from = "shopper"]
    /\ calls = NoCalls
    /\ other = NoOther
    /\ db = NoDb
    /\ store = NoStore

ShopperNext ==
    \/ ShopperEnter
    \/ ShopItem
    \/ ShopperReturn

ShopperSpec == ShopperInit /\ [][ShopperNext]_vars

\* the list of the budget scenario: two items and a third one after them
ScenarioList == <<"apple", "beef", "third">>

\* shopper_node called with nothing spent yet, on the lists of ShopperInit
\* or on the scenario's list
BudgetInit ==
    /\ \E shopping_list \in SeqsUpTo(Items, MaxList) \cup {ScenarioList},
          budget_limit \in Budgets :
         ckpt = [ exists |-> TRUE,
                  values |-> [EmptyValues EXCEPT
                                !.messages = <<"human">>,
                                !.meal_plan_json = DefaultPlan,
                                !.shopping_list = shopping_list,
                                !.budget_limit = budget_limit],
                  next |-> "shopper",
                  error |-> FALSE ]
    /\ pc = "loop"
    /\ resuming = TRUE
    /\ sh = NoShopper
    /\ browser = [page |-> "none"]
    /\ hist = [NoHist EXCEPT !.outcome = "running", !.kind = "resume",
                             !.from = "shopper"]
    /\ calls = NoCalls
    /\ other = NoOther
    /\ db = NoDb
    /\ store = NoStore

BudgetSpec == BudgetInit /\ [][ShopperNext]_vars

----------------------------------------------------------------------------
(* Two calls on one thread_id: create_workflow compiles the graph with a
   MemorySaver and nothing else, and the callers take no lock, so a second
   astream(None, config) or update_state(config, ...) can be made while a
   first call is running a stage. *)

RECURSIVE RunLoop(_, _, _, _)
\* the locals the loop of shopper_node can end with when no iteration
\* raises, from the locals loc with loc.i pairs already handled
RunLoop(loc, page_state, shopping_list, optimized_queries) ==
    IF loc.i >= ZipLen(shopping_list, optimized_queries)
    THEN {loc}
    ELSE UNION {
           IF r.raised
           THEN {}
           ELSE RunLoop([loc EXCEPT !.i = @ + 1,
                                    !.cart = r.cart,
                                    !.missing = r.missing,
                                    !.current_total = r.current_total],
                        page_state, shopping_list, optimized_queries)
           : r \in ProcessItem(loc, page_state, shopping_list[loc.i + 1],
                               optimized_queries[loc.i + 1]) }

\* a second app.astream(None, config) begins while the first call is in
\* progress: it finds shopper pending and enters shopper_node
OtherResume ==
    /\ pc # "idle"
    /\ other.pc = "idle"
    /\ ckpt.exists
    /\ ckpt.next = "shopper"
    /\ other' = [pc |-> "shopper", shopping_list |-> ckpt.values.shopping_list]
    /\ UNCHANGED <<db, store>>
    /\ UNCHANGED <<ckpt, pc, resuming, sh, browser, hist, calls>>

\* the second call's shopper_node returns, its update is persisted, then
\* human_review's, and the call stops before checkout
OtherReturn ==
    /\ other.pc = "shopper"
    /\ \E optimized_queries \in QueryOutputs(other.shopping_list) :
       \E loc \in RunLoop([NoShopper EXCEPT
                             !.shopping_list = other.shopping_list,
                             !.current_total = ckpt.values.total_cost,
                             !.limit = ckpt.values.budget_limit],
                          browser.page, other.shopping_list, optimized_queries) :
         ckpt' = [Persist("shopper", [cart_items |-> loc.cart,
                                      missing_items |-> loc.missing,
                                      total_cost |-> loc.current_total])
                  EXCEPT !.next = Edge["human_review"]]
    /\ other' = NoOther
    /\ UNCHANGED <<db, store>>
    /\ UNCHANGED <<pc, resuming, sh, browser, hist, calls>>

\* app.update_state(config, {"shopping_list": final_list}) made by another
\* caller while the first call is running a stage
OtherPatch ==
    /\ pc = "shopper"
    /\ other.pc = "idle"
    /\ ckpt.exists
    /\ \E final_list \in PlanLists :
         ckpt' = [ckpt EXCEPT !.values.shopping_list = final_list,
                              !.error = FALSE]
    /\ UNCHANGED <<pc, resuming, sh, browser, hist, calls, other, db, store>>

\* the session as "Generate Plan" leaves it: paused before shopper
ConcInit ==
    /\ \E shopping_list \in PlanLists, budget_limit \in Budgets,
          meal_plan_json \in {<<PlanText>>, DefaultPlan} :
         ckpt = [ exists |-> TRUE,
                  values |-> [EmptyValues EXCEPT
                                !.messages = <<"human">>,
                                !.meal_plan_json = meal_plan_json,
                                !.shopping_list = shopping_list,
                                !.pantry_items = "pantry",
                                !.budget_limit = budget_limit],
                  next |-> "shopper",
                  error |-> FALSE ]
    /\ pc = "idle"
    /\ resuming = FALSE
    /\ sh = NoShopper
    /\ browser = [page |-> "none"]
    /\ hist = [NoHist EXCEPT !.call = <<"planner", "extractor">>,
                             !.run = <<"planner", "extractor">>,
                             !.outcome = "interrupted", !.kind = "start",
                             !.from = EntryPoint]
    /\ calls = NoCalls
    /\ other = NoOther
    /\ db = NoDb
    /\ store = NoStore

ConcNext ==
    \/ UpdateState
    \/ Resume
    \/ ShopperEnter
    \/ ShopItem
    \/ ShopperReturn
    \/ RunReview
    \/ Interrupt
    \/ OtherResume
    \/ OtherReturn
    \/ OtherPatch

ConcSpec == ConcInit /\ [][ConcNext]_vars

----------------------------------------------------------------------------
(* Properties *)

\* shopper_node has just returned and its update has been persisted
ShopperDone ==
    /\ pc = "loop"
    /\ hist.call # <<>>
    /\ hist.call[Len(hist.call)] = "shopper"

\* the items the loop has produced a record for, in order
Recorded == [k \in 1..Len(calls.log) |-> calls.log[k].item]

\* the price a cart entry shows: the text between " ($" and the final ")"
EntryPrice(entry) ==
    LET k == CHOOSE j \in 1..Len(entry) : entry[j] = " ($"
    IN  FloatCents(CleanPrice(SubSeq(entry, k + 1, Len(entry) - 1)))

RECURSIVE SumPrices(_)
SumPrices(cart) ==
    IF cart = <<>> THEN 0 ELSE EntryPrice(Head(cart)) + SumPrices(Tail(cart))

\* C1: at the end of every Shopper run each entry of the shopping list is
\* accounted for by exactly one record, in cart_items or in missing_items:
\* the records were produced for the items of the list, one per position,
\* so that |cart_items| + |missing_items| = |shopping_list|.
C1_Partition ==
    ShopperDone =>
        /\ Recorded = ckpt.values.shopping_list
        /\ Len(ckpt.values.cart_items) + Len(ckpt.values.missing_items)
             = Len(ckpt.values.shopping_list)

\* C2: after Shopper completes, total_cost equals the sum of the prices of
\* the records in the cart_items it returned, whatever total_cost the stage
\* was entered with.
C2_TotalIsCartSum ==
    ShopperDone => ckpt.values.total_cost = SumPrices(ckpt.values.cart_items)

\* the step is one iteration of the loop of shopper_node
ItemStep == pc = "shopper" /\ Len(calls'.log) = Len(calls.log) + 1

\* the item the iteration of an ItemStep handles
StepItem == sh.shopping_list[sh.i + 1]

IsBudgetCut(entry) == Len(entry) = 2 /\ entry[2] = BudgetCutSuffix

\* C3: an item reached while current_total >= limit is recorded in
\* missing_items as Budget Cut and no search, addToCart or searchAndAdd call
\* is made for it; and when current_total = limit at entry, at the end
\* every item of the shopping list is recorded as Budget Cut, cart_items is
\* empty and total_cost is unchanged.
C3_BudgetGate ==
    [][ /\ (ItemStep /\ sh.current_total >= sh.limit) =>
              /\ pc' = "shopper"
              /\ sh'.missing = Append(sh.missing, BudgetCutEntry(StepItem))
              /\ sh'.cart = sh.cart
              /\ sh'.current_total = sh.current_total
              /\ calls'.trail = <<>>
              /\ calls'.n = calls.n
        /\ (ShopperDone' /\ calls'.entry = ckpt'.values.budget_limit) =>
              /\ ckpt'.values.missing_items =
                   [k \in 1..Len(ckpt'.values.shopping_list) |->
                      BudgetCutEntry(ckpt'.values.shopping_list[k])]
              /\ ckpt'.values.cart_items = <<>>
              /\ ckpt'.values.total_cost = calls'.entry
      ]_vars

\* the part of C3 the code keeps: the gate as above, and when
\* current_total = limit at entry every item the loop reached is recorded as
\* Budget Cut, nothing is bought and no catalog call but the hand-off is made
C3_GateOnReachedItems ==
    [][ /\ (ItemStep /\ sh.current_total >= sh.limit) =>
              /\ pc' = "shopper"
              /\ sh'.missing = Append(sh.missing, BudgetCutEntry(StepItem))
              /\ sh'.cart = sh.cart
              /\ sh'.current_total = sh.current_total
              /\ calls'.trail = <<>>
              /\ calls'.n = calls.n
        /\ (ShopperDone' /\ calls'.entry = ckpt'.values.budget_limit) =>
              /\ ckpt'.values.missing_items =
                   [k \in 1..Len(calls'.log) |-> BudgetCutEntry(calls'.log[k].item)]
              /\ ckpt'.values.cart_items = <<>>
              /\ ckpt'.values.total_cost = calls'.entry
              /\ calls'.n = 1
      ]_vars

\* C4: during the loop current_total never decreases; nothing is committed
\* at a moment when current_total was already >= limit; so at every point
\* current_total is below limit, or nothing has been committed, or it was
\* below limit before the most recently committed item was added.
C4_GateBeforeCommit ==
    [][ /\ (ItemStep /\ pc' = "shopper") =>
              /\ sh'.current_total >= sh.current_total
              /\ (sh'.cart # sh.cart \/ sh'.current_total # sh.current_total) =>
                    /\ sh.current_total < sh.limit
                    /\ Len(sh'.cart) = Len(sh.cart) + 1
        /\ pc' = "shopper" =>
              \/ sh'.current_total < sh'.limit
              \/ sh'.cart = <<>> /\ sh'.current_total = calls'.entry
              \/ sh'.cart # <<>> /\ sh'.current_total - calls'.last < sh'.limit
      ]_vars

\* a purchase crossed the limit and the next item was cut for it
C4_Witness ==
    /\ pc = "shopper"
    /\ sh.cart # <<>>
    /\ calls.entry < sh.limit
    /\ sh.current_total > sh.limit
    /\ sh.missing # <<>>
    /\ IsBudgetCut(sh.missing[Len(sh.missing)])

\* C5: every execution of Shopper calls the checkout hand-off exactly
\* once, and calls it only when every item of the shopping list has been
\* processed.
C5_CheckoutOnce ==
    [][ /\ calls'.checkout # calls.checkout =>
              /\ calls.checkout = 0
              /\ calls'.checkout = 1
              /\ Len(calls.log) = Len(sh.shopping_list)
        /\ (pc = "shopper" /\ pc' # "shopper") => calls'.checkout = 1
      ]_vars

\* the part of C5 the code keeps: at most one hand-off per execution, made
\* after the loop has ended, and exactly one in every execution that returns
C5_CheckoutAfterLoop ==
    [][ /\ calls'.checkout # calls.checkout =>
              /\ calls.checkout = 0
              /\ calls'.checkout = 1
              /\ sh.i = ZipLen(sh.shopping_list, sh.optimized_queries)
        /\ ShopperDone' => calls'.checkout = 1
      ]_vars

\* the last call returned to its caller without a stage failure
Returned == pc = "idle" /\ hist.outcome \in {"interrupted", "completed"}

StageOrder == <<"planner", "extractor", "shopper", "human_review", "checkout">>

IsPrefix(s, t) == Len(s) <= Len(t) /\ \A k \in 1..Len(s) : s[k] = t[k]

\* C6: a start call executes planner then extractor and halts before
\* shopper: when it returns the pending stage is shopper, no catalog call
\* has been made and no cart_items/missing_items were produced by this run;
\* and no call executes a stage of interrupt_before after another stage
\* in the same call.
C6_StartHaltsBeforeShop ==
    /\ (Returned /\ hist.kind = "start") =>
          /\ hist.outcome = "interrupted"
          /\ hist.call = <<"planner", "extractor">>
          /\ hist.run = hist.call
          /\ current_step = "shopper"
          /\ calls = NoCalls
          /\ \A k \in 1..Len(hist.run) : hist.run[k] # "shopper"
    /\ \A k \in 2..Len(hist.call) : hist.call[k] \notin InterruptBefore

\* a start call has returned at the interrupt with a list to shop for
C6_Witness ==
    /\ Returned
    /\ hist.kind = "start"
    /\ hist.call = <<"planner", "extractor">>
    /\ ckpt.values.shopping_list # <<>>
    /\ current_step = "shopper"

\* C7: a resume call with shopper pending executes shopper then
\* human_review and halts with checkout pending; with checkout pending it
\* executes checkout and the run completes with no pending stage; and the
\* stages completed since a start follow the order planner, extractor,
\* shopper, human_review, checkout, each at most once.
C7_ResumeOrder ==
    /\ (Returned /\ hist.kind = "resume" /\ hist.from = "shopper") =>
          /\ hist.call = <<"shopper", "human_review">>
          /\ hist.outcome = "interrupted"
          /\ current_step = "checkout"
    /\ (Returned /\ hist.kind = "resume" /\ hist.from = "checkout") =>
          /\ hist.call = <<"checkout">>
          /\ hist.outcome = "completed"
          /\ current_step = "None"
    /\ (hist.kind = "resume" /\ hist.call # <<>>) => hist.call[1] = hist.from
    /\ IsPrefix(hist.run, StageOrder)

\* the run has gone through every stage and completed
C7_Witness ==
    /\ Returned
    /\ hist.kind = "resume"
    /\ hist.from = "checkout"
    /\ hist.run = StageOrder
    /\ hist.outcome = "completed"

\* C8: update_state executes no stage and makes no catalog or
\* text-completion call; the checkpoint after it differs from the one before
\* only in the patched channel shopping_list; and the session is still
\* paused with shopper the stage the next resume begins at.
C8_PatchFrame ==
    [][ UpdateState =>
          /\ pc' = "idle"
          /\ calls' = calls
          /\ sh' = sh
          /\ browser' = browser
          /\ hist'.call = hist.call
          /\ hist'.run = hist.run
          /\ hist'.outcome = hist.outcome
          /\ ckpt'.exists
          /\ ckpt'.next = "shopper"
          /\ current_step' = "shopper"
          /\ \A ch \in DOMAIN ckpt.values \ {"shopping_list"} :
                ckpt'.values[ch] = ckpt.values[ch]
          /\ ckpt'.values.shopping_list \in PlanLists
      ]_vars

\* the caller has replaced the extractor's list by another one and the
\* session is paused before shopper
C8_Witness ==
    /\ pc = "idle"
    /\ hist.edited = "changed"
    /\ hist.kind = "start"
    /\ current_step = "shopper"

\* C9: after update_state with an edited list and a resume, the
\* shopper processes exactly the items of the edited list (the
\* shopping_list the patch left in the checkpoint), and the cart_items and
\* missing_items of the checkpoint are those of this execution only.
C9_EditedListShopped ==
    (ShopperDone /\ hist.edited # "none") =>
        /\ Recorded = ckpt.values.shopping_list
        /\ ckpt.values.cart_items = sh.cart
        /\ ckpt.values.missing_items = sh.missing
        /\ Len(sh.cart) + Len(sh.missing) = Len(ckpt.values.shopping_list)

\* the part of C9 the code keeps: the list read is the edited one, the items
\* handled are its first ones, and the results replace the earlier ones
C9_EditedListRead ==
    (ShopperDone /\ hist.edited # "none") =>
        /\ sh.shopping_list = ckpt.values.shopping_list
        /\ IsPrefix(Recorded, ckpt.values.shopping_list)
        /\ ckpt.values.cart_items = sh.cart
        /\ ckpt.values.missing_items = sh.missing
        /\ Len(sh.cart) + Len(sh.missing) = Len(Recorded)

\* C10: a restart of the process between the extractor's completion
\* and the shopper's beginning keeps the checkpoint: the pending stage is
\* still shopper and shopping_list and meal_plan_json are those held before.
C10_CheckpointSurvivesRestart ==
    [][ (Restart /\ ckpt.exists /\ ckpt.next = "shopper" /\ pc \in {"idle", "loop"}) =>
          /\ ckpt'.exists
          /\ current_step' = "shopper"
          /\ ckpt'.values.shopping_list = ckpt.values.shopping_list
          /\ ckpt'.values.meal_plan_json = ckpt.values.meal_plan_json
      ]_vars

\* a step by which the call in progress ends with the exception of a stage
StageFails == pc # "idle" /\ pc' = "idle" /\ hist'.outcome = "failed"

C12_ItemFailureContinues ==
    [][ ItemStep =>
          /\ pc' = "shopper"
          /\ sh'.i = sh.i + 1
          /\ Len(sh'.cart) + Len(sh'.missing) = Len(sh.cart) + Len(sh.missing) + 1
          /\ sh'.cart = sh.cart =>
                /\ Len(sh'.missing) = Len(sh.missing) + 1
                /\ sh'.missing[Len(sh'.missing)][1] = StepItem
                /\ sh'.current_total = sh.current_total
      ]_vars

\* the part of C12 the code keeps: an iteration ends the execution only
\* when its selection call raises, after a search that returned options
C12_OnlySelectionAborts ==
    [][ ItemStep =>
          \/ /\ pc' = "shopper"
             /\ sh'.i = sh.i + 1
             /\ Len(sh'.cart) + Len(sh'.missing) = Len(sh.cart) + Len(sh.missing) + 1
          \/ /\ pc' = "idle"
             /\ hist'.outcome = "failed"
             /\ calls'.log[Len(calls'.log)].dest = "none"
             /\ calls'.trail \in {<<"search">>, <<"search", "search">>}
      ]_vars

\* C13: for one thread_id the stage in progress is a critical section:
\* shopper_node is never running in two calls for the same pending
\* checkpoint, and while a stage is running no step changes the checkpoint
\* of the session but the completion of that stage.
C13_CriticalSection ==
    [][ /\ ~(pc' = "shopper" /\ other'.pc = "shopper")
        /\ (pc = "shopper" /\ pc' = "shopper") => ckpt' = ckpt
      ]_vars

\* the stage completed last since the Start of the run ("None" before any)
LastCompleted == IF hist.run = <<>> THEN "None" ELSE hist.run[Len(hist.run)]

\* C14: current_step is "shopper" exactly when the session is paused
\* before shopper, "checkout" exactly when it is paused before checkout, and
\* None when there is no checkpoint or the run has completed; after a call
\* that returned normally it is never planner, extractor or human_review.
C14_PendingStage ==
    /\ ~ckpt.exists => current_step = "None"
    /\ Returned =>
          /\ current_step \in {"shopper", "checkout", "None"}
          /\ current_step = "shopper" <=>
                (hist.outcome = "interrupted" /\ LastCompleted = "extractor")
          /\ current_step = "checkout" <=>
                (hist.outcome = "interrupted" /\ LastCompleted = "human_review")
          /\ current_step = "None" <=>
                (hist.outcome = "completed" /\ LastCompleted = "checkout")

\* the session is paused before checkout and the caller reads that
C14_Witness ==
    /\ Returned
    /\ hist.outcome = "interrupted"
    /\ LastCompleted = "human_review"
    /\ current_step = "checkout"

C15_FailureDistinguished ==
    (pc = "idle" /\ ckpt.exists /\ ckpt.error) =>
        /\ current_step # PendingStage(NoCheckpoint)
        /\ current_step # PendingStage([ckpt EXCEPT !.next = END])

\* C16: the outcome of the checkout hand-off is observable in the update
\* shopper_node returns (the update returned after a successful hand-off
\* differs from the one returned after a failed one), and cart_items and
\* missing_items are the same in both.
C16_HandoffReported ==
    ShopperDone =>
        LET ok == ShopperUpdate(sh.cart, sh.missing, sh.current_total, TRUE)
            ko == ShopperUpdate(sh.cart, sh.missing, sh.current_total, FALSE)
        IN  /\ ok # ko
            /\ ok.cart_items = ko.cart_items
            /\ ok.missing_items = ko.missing_items
            /\ \E handoff \in BOOLEAN :
                  /\ ckpt.values.cart_items =
                       ShopperUpdate(sh.cart, sh.missing, sh.current_total, handoff).cart_items
                  /\ ckpt.values.missing_items =
                       ShopperUpdate(sh.cart, sh.missing, sh.current_total, handoff).missing_items

\* the part of C16 the code keeps: cart_items and missing_items do not
\* depend on the outcome of the hand-off
C16_ListsIgnoreHandoff ==
    ShopperDone =>
        \A handoff \in BOOLEAN :
            /\ ckpt.values.cart_items =
                 ShopperUpdate(sh.cart, sh.missing, sh.current_total, handoff).cart_items
            /\ ckpt.values.missing_items =
                 ShopperUpdate(sh.cart, sh.missing, sh.current_total, handoff).missing_items

\* the channels each stage may change, as C17 lists them
MayChange ==
    [ planner |-> {"meal_plan_json", "total_cost"},
      extractor |-> {"shopping_list"},
      shopper |-> {"cart_items", "missing_items", "total_cost"},
      human_review |-> {},
      checkout |-> {"messages"} ]

\* the step completes the stage
Completes(stage) == hist'.run = Append(hist.run, stage)

\* C17: the completion of a stage changes only the channels the stage
\* returns: none changes budget_limit, pantry_items or user_approved, the
\* extractor changes only shopping_list, the shopper only cart_items,
\* missing_items and total_cost, human_review nothing, and checkout only
\* appends one message to messages.
C17_StageFrame ==
    [][ \A stage \in Stages :
          Completes(stage) =>
             /\ \A ch \in DOMAIN ckpt.values \ MayChange[stage] :
                   ckpt'.values[ch] = ckpt.values[ch]
             /\ stage = "checkout" =>
                   /\ Len(ckpt'.values.messages) = Len(ckpt.values.messages) + 1
                   /\ SubSeq(ckpt'.values.messages, 1, Len(ckpt.values.messages))
                        = ckpt.values.messages
      ]_vars

\* a run has gone through checkout with a budget, a pantry text, a list and
\* a purchase in its checkpoint
C17_Witness ==
    /\ LastCompleted = "checkout"
    /\ ckpt.values.budget_limit > 0
    /\ ckpt.values.pantry_items # ""
    /\ ckpt.values.shopping_list # <<>>
    /\ ckpt.values.cart_items # <<>>
    /\ Len(ckpt.values.messages) = 2

\* C18: when every search returns an empty list (and the total at entry
\* is below the limit), after the shopper every item of shopping_list is in
\* missing_items as not found, cart_items is empty, total_cost is unchanged,
\* and neither add_specific_item nor search_and_add was called.
C18_EmptyCatalog ==
    (ShopperDone /\ calls.empty /\ calls.entry < ckpt.values.budget_limit) =>
        /\ ckpt.values.missing_items =
             [k \in 1..Len(ckpt.values.shopping_list) |->
                NotFoundEntry(ckpt.values.shopping_list[k])]
        /\ ckpt.values.cart_items = <<>>
        /\ ckpt.values.total_cost = calls.entry
        /\ calls.adds = 0

\* the part of C18 the code keeps: the same for the items the loop reached
C18_EmptyCatalogReached ==
    (ShopperDone /\ calls.empty /\ calls.entry < ckpt.values.budget_limit) =>
        /\ ckpt.values.missing_items =
             [k \in 1..Len(Recorded) |-> NotFoundEntry(Recorded[k])]
        /\ ckpt.values.cart_items = <<>>
        /\ ckpt.values.total_cost = calls.entry
        /\ calls.adds = 0

PlannerInit ==
    /\ \E budget_limit \in Budgets :
         ckpt = [ exists |-> TRUE,
                  values |-> [EmptyValues EXCEPT
                                !.messages = <<"human">>,
                                !.pantry_items = "pantry",
                                !.budget_limit = budget_limit],
                  next |-> EntryPoint,
                  error |-> FALSE ]
    /\ pc = "loop"
    /\ resuming = FALSE
    /\ sh = NoShopper
    /\ browser = [page |-> "none"]
    /\ hist = [NoHist EXCEPT !.outcome = "running", !.kind = "start",
                             !.from = EntryPoint]
    /\ calls = NoCalls
    /\ other = NoOther
    /\ db = NoDb
    /\ store = NoStore

PlanAny == Planner(Completions)

PlannerNext ==
    \/ PlanAny
    \/ NodeRaises
    \/ RunExtractor
    \/ Interrupt

PlannerSpec == PlannerInit /\ [][PlannerNext]_vars

\* C20: when planner_node completes, meal_plan_json is the completion text
\* without its fence, unchanged, if that text parses as JSON, and the default
\* plan {"schedule": []} otherwise (a fenced or bare document is kept, prose
\* is replaced); either way the stage succeeds with extractor pending,
\* meal_plan_json parses as JSON and total_cost is 0.
C20_PlannerParse ==
    [][ Completes("planner") =>
          LET response == hist'.completion
              content == PlannerContent(response)
              plan == ckpt'.values.meal_plan_json
          IN  /\ JsonLoads(content) => plan = content
              /\ ~JsonLoads(content) => plan = DefaultPlan
              /\ response \in { <<PlanText>>,
                                <<FenceOpen, PlanText, FenceClose>>,
                                <<FenceOpen, NL, PlanText>>,
                                <<PlanText, NL, FenceClose>> }
                    => plan = <<PlanText>>
              /\ response \in {<<>>, <<NotJson>>, <<FenceOpen, NotJson>>,
                               <<PlanText, PlanText>>}
                    => plan = DefaultPlan
              /\ JsonLoads(plan)
              /\ ckpt'.values.total_cost = 0
              /\ ckpt'.next = "extractor"
              /\ ~ckpt'.error
              /\ pc' = "loop"
      ]_vars

\* the planner has completed on a fenced document and kept it without the
\* fence
C20_Witness ==
    /\ LastCompleted = "planner"
    /\ hist.completion = <<FenceOpen, NL, PlanText>>
    /\ ckpt.values.meal_plan_json = <<PlanText>>
    /\ ckpt.values.total_cost = 0
    /\ ckpt.next = "extractor"

\* the planner has completed on prose and fallen back to the default plan
C20_FallbackReached ==
    /\ LastCompleted = "planner"
    /\ hist.completion = <<NotJson>>
    /\ ckpt.values.meal_plan_json = DefaultPlan

(* extractor_node on any reply *)

\* the extractor is pending in a run started by "Generate Plan"
ExtractorInit ==
    /\ \E budget_limit \in Budgets, meal_plan_json \in {<<PlanText>>, DefaultPlan} :
         ckpt = [ exists |-> TRUE,
                  values |-> [EmptyValues EXCEPT
                                !.messages = <<"human">>,
                                !.meal_plan_json = meal_plan_json,
                                !.pantry_items = "pantry",
                                !.budget_limit = budget_limit],
                  next |-> "extractor",
                  error |-> FALSE ]
    /\ pc = "loop"
    /\ resuming = FALSE
    /\ sh = NoShopper
    /\ browser = [page |-> "none"]
    /\ hist = [NoHist EXCEPT !.call = <<"planner">>, !.run = <<"planner">>,
                             !.outcome = "running", !.kind = "start",
                             !.from = EntryPoint]
    /\ calls = NoCalls
    /\ other = NoOther
    /\ db = NoDb
    /\ store = NoStore

ExtractAny == Extractor(Replies)

ExtractorNext ==
    \/ ExtractAny
    \/ NodeRaises
    \/ Interrupt

ExtractorSpec == ExtractorInit /\ [][ExtractorNext]_vars

\* no element of the list occurs twice
Distinct(list) ==
    \A j, k \in 1..Len(list) : j # k => list[j] # list[k]

\* the number of commas of a text
RECURSIVE Count(_, _)
Count(s, c) ==
    IF s = <<>> THEN 0
    ELSE (IF Head(s) = c THEN 1 ELSE 0) + Count(Tail(s), c)

\* C21: when extractor_node completes, shopping_list holds the pieces of the
\* reply between its commas, in their order, each with its runs of
\* whitespace collapsed and its ends trimmed, the empty ones dropped; the
\* list has no empty descriptor and no descriptor twice.
C21_ExtractedList ==
    [][ Completes("extractor") =>
          LET response == hist'.completion
              list == ckpt'.values.shopping_list
          IN  /\ list = extractor_items(response)
              /\ \A k \in 1..Len(list) : list[k] # ""
              /\ Distinct(list)
      ]_vars

\* the list is the reply's pieces in order, cleaned, none empty: a reply of
\* words and commas gives its words, blanks around a word are dropped and a
\* run of whitespace inside a piece becomes one blank
C21_PiecesInOrder ==
    [][ Completes("extractor") =>
          LET response == hist'.completion
              list == ckpt'.values.shopping_list
          IN  /\ Len(list) <= Count(response, Comma) + 1
              /\ \A k \in 1..Len(list) : list[k] # "" /\ list[k] # " "
              /\ response = <<"apple", Comma, "beef">> => list = <<"apple", "beef">>
              /\ response = <<"beef", Comma, Blank, "apple">>
                    => list = <<"beef", "apple">>
              /\ response = <<"apple", Blank, NL, "beef">> => list = <<"apple beef">>
              /\ response = <<Comma, Blank, Comma, "apple">> => list = <<"apple">>
              /\ response \in {<<>>, <<Comma>>, <<Blank, Comma, NL>>} => list = <<>>
      ]_vars

\* the extractor has returned a list that names an item twice
C21_DuplicateReached ==
    /\ LastCompleted = "extractor"
    /\ hist.completion = <<"apple", Comma, "apple">>
    /\ ckpt.values.shopping_list = <<"apple", "apple">>

(* DBManager on one database file *)

\* the state in which only the database matters
DbInit ==
    /\ ckpt = NoCheckpoint
    /\ pc = "idle"
    /\ resuming = FALSE
    /\ sh = NoShopper
    /\ browser = [page |-> "none"]
    /\ hist = NoHist
    /\ calls = NoCalls
    /\ other = NoOther
    /\ db = NoDb
    /\ store = NoStore

SettingsNext ==
    \/ SaveSetting
    \/ GetSetting

SettingsSpec == DbInit /\ [][SettingsNext]_vars

\* the save_setting calls of the log that name the key
SavesOf(log, key) ==
    SelectSeq(log, LAMBDA c : c.op = "save_setting" /\ c.key = key)

\* the value the most recent save_setting(key, v) gave, or the default when
\* the key was never saved
LastSaved(log, key, default) ==
    IF SavesOf(log, key) = <<>> THEN default
    ELSE SavesOf(log, key)[Len(SavesOf(log, key))].value

\* C22: get_setting(k, default) returns the value of the most recent
\* save_setting(k, v) of the calls made so far, whatever was saved under
\* other keys and before it, and the default when k was never saved.
C22_LastSavedWins ==
    db.ret.op = "get_setting" =>
       db.ret.value = LastSaved(db.log, db.ret.key, db.ret.default)

\* budget was saved twice with different values and pantry in between, and
\* get_setting("budget", "200.0") has returned the later value, which is not
\* the default
C22_Witness ==
    /\ db.ret.op = "get_setting"
    /\ db.ret.key = "budget"
    /\ db.ret.default = "200.0"
    /\ Len(SavesOf(db.log, "budget")) = 2
    /\ SavesOf(db.log, "budget")[1].value = "200.0"
    /\ SavesOf(db.log, "pantry") # <<>>
    /\ db.log[2].key = "pantry"
    /\ db.ret.value = "100.0"

PlansNext ==
    \/ SavePlan
    \/ GetRecentPlans
    \/ DeleteAllPlans

PlansSpec == DbInit /\ [][PlansNext]_vars

RECURSIVE SavedSince(_)
\* the save_plan calls of the log made after its last delete_all_plans
SavedSince(log) ==
    IF log = <<>> THEN <<>>
    ELSE IF log[Len(log)].op = "delete_all_plans" THEN <<>>
    ELSE SavedSince(SubSeq(log, 1, Len(log) - 1))
           \o (IF log[Len(log)].op = "save_plan" THEN <<log[Len(log)]>>
               ELSE <<>>)

\* C23: get_recent_plans(limit) returns min(limit, number of saved plans)
\* plans, the most recently saved first, each with the prompt, the plan JSON
\* and the shopping list as they were passed to save_plan; right after
\* delete_all_plans it returns the empty list.
C23_RecentPlans ==
    db.ret.op = "get_recent_plans" =>
       LET saved == SavedSince(db.log)
           plans == db.ret.plans
       IN  /\ Len(plans) = Min(db.ret.limit, Len(saved))
           /\ \A k \in 1..Len(plans) :
                 /\ plans[k].prompt = saved[Len(saved) + 1 - k].prompt
                 /\ plans[k].json = saved[Len(saved) + 1 - k].plan_json
                 /\ plans[k].list = saved[Len(saved) + 1 - k].shopping_list
           /\ (db.log # <<>> /\ db.log[Len(db.log)].op = "delete_all_plans")
                 => plans = <<>>

\* a plan was deleted, two plans with different prompts and lists were saved
\* after it, and get_recent_plans(1) has returned the later one alone
C23_Witness ==
    /\ db.ret.op = "get_recent_plans"
    /\ db.ret.limit = 1
    /\ Len(db.log) = 3
    /\ db.log[1].op = "delete_all_plans"
    /\ db.log[2] = [op |-> "save_plan", prompt |-> "Prompt 0",
                    plan_json |-> DefaultPlan, shopping_list |-> <<"apple">>]
    /\ db.log[3].op = "save_plan"
    /\ db.log[3].prompt = "Prompt 1"
    /\ Len(db.ret.plans) = 1
    /\ db.ret.plans[1].prompt = "Prompt 1"
    /\ db.ret.plans[1].list = <<"apple", "beef">>

\* the query zip pairs with the item of an ItemStep
StepQuery == sh.optimized_queries[sh.i + 1]

\* C24: when the first search of an iteration returns no option, the
\* original item is searched for once more exactly when the query differs
\* from it, and the options of that search are handed to the selection if
\* there are any; when no option is obtained the item goes to missing_items
\* as it is (not found), no add_specific_item or search_and_add call is made
\* for it, and the loop goes on to the next item.
C24_RetryWithOriginal ==
    [][ (ItemStep /\ calls'.asked # <<>> /\ calls'.first = 0) =>
          /\ StepQuery # StepItem => calls'.asked = <<StepQuery, StepItem>>
          /\ StepQuery = StepItem => calls'.asked = <<StepQuery>>
          /\ Len(SelectSeq(calls'.trail, LAMBDA c : c = "search"))
                = Len(calls'.asked)
          /\ calls'.hits > 0 =>
                /\ StepQuery # StepItem
                /\ calls'.choice # <<>> \/ calls'.log[Len(calls'.log)].dest = "none"
          /\ calls'.hits = 0 =>
                /\ sh'.missing = Append(sh.missing, NotFoundEntry(StepItem))
                /\ SelectSeq(calls'.trail, IsAddCall) = <<>>
                /\ calls'.choice = <<>>
                /\ sh'.cart = sh.cart
                /\ sh'.current_total = sh.current_total
                /\ pc' = "shopper"
                /\ sh'.i = sh.i + 1
      ]_vars

\* an item whose query was rewritten has been searched for twice, by the
\* query and then by its own text, both times in vain, and is reported
\* missing
C24_Witness ==
    /\ pc = "shopper"
    /\ sh.i >= 1
    /\ calls.asked = <<OptimizedQuery, sh.shopping_list[sh.i]>>
    /\ calls.first = 0
    /\ calls.hits = 0
    /\ calls.trail = <<"search", "search">>
    /\ sh.missing # <<>>
    /\ sh.missing[Len(sh.missing)] = NotFoundEntry(sh.shopping_list[sh.i])

\* the second search has found options and the selection has used them
C24_RetryFound ==
    /\ pc = "shopper"
    /\ Len(calls.asked) = 2
    /\ calls.first = 0
    /\ calls.hits > 0
    /\ calls.choice # <<>>

\* the selection of the iteration is no option of the list it was made on
NoMatch(choice, hits) == choice # <<>> /\ (choice[1] < 0 \/ choice[1] >= hits)

\* C25: when the selection gives -1 or any integer that is not the index of
\* an option, the item goes to missing_items marked "(No good match)",
\* neither add_specific_item nor search_and_add is called for it, the cart
\* and the total are unchanged, and the loop goes on; the option list is
\* read only at indices it has.
C25_NoGoodMatch ==
    [][ (ItemStep /\ NoMatch(calls'.choice, calls'.hits)) =>
          /\ sh'.missing = Append(sh.missing, <<StepItem, NoGoodMatchSuffix>>)
          /\ SelectSeq(calls'.trail, IsAddCall) = <<>>
          /\ calls'.success = <<>>
          /\ calls'.bf = <<>>
          /\ sh'.cart = sh.cart
          /\ sh'.current_total = sh.current_total
          /\ pc' = "shopper"
          /\ sh'.i = sh.i + 1
      ]_vars

\* the selection has named an index beyond the two options of the search
\* and the item is reported as having no good match
C25_Witness ==
    /\ pc = "shopper"
    /\ sh.i >= 1
    /\ calls.choice = <<3>>
    /\ calls.hits = 2
    /\ calls.trail = <<"search">>
    /\ sh.missing # <<>>
    /\ sh.missing[Len(sh.missing)] = <<sh.shopping_list[sh.i], NoGoodMatchSuffix>>

\* the selection has given the sentinel -1
C25_SentinelReached ==
    /\ pc = "shopper"
    /\ sh.i >= 1
    /\ calls.choice = <<-1>>
    /\ sh.missing # <<>>
    /\ sh.missing[Len(sh.missing)] = <<sh.shopping_list[sh.i], NoGoodMatchSuffix>>

\* C26: when add_specific_item fails for the selected option, search_and_add
\* is called once, with the query of the item; if it answers ADDED one entry
\* for the original item with the price it reports is appended to cart_items
\* and the total grows by that price; otherwise the item goes to
\* missing_items as not found and the total is unchanged. No further catalog
\* call is made for the item.
C26_FallbackOnce ==
    [][ (ItemStep /\ calls'.success = <<FALSE>>) =>
          /\ Len(calls'.bf) = 1
          /\ calls'.bf[1].query = StepQuery
          /\ Len(SelectSeq(calls'.trail, LAMBDA c : c = "searchAndAdd")) = 1
          /\ Len(SelectSeq(calls'.trail, LAMBDA c : c = "addToCart")) = 1
          /\ SubSeq(calls'.trail, Len(calls'.trail) - 1, Len(calls'.trail))
                = <<"addToCart", "searchAndAdd">>
          /\ calls'.bf[1].status = "ADDED" =>
                /\ sh'.cart = Append(sh.cart,
                                     <<StepItem, " ($">>
                                        \o Format2f(calls'.bf[1].price) \o <<")">>)
                /\ sh'.current_total = sh.current_total + calls'.bf[1].price
                /\ sh'.missing = sh.missing
          /\ calls'.bf[1].status # "ADDED" =>
                /\ sh'.missing = Append(sh.missing, <<StepItem>>)
                /\ sh'.current_total = sh.current_total
                /\ sh'.cart = sh.cart
          /\ pc' = "shopper"
          /\ sh'.i = sh.i + 1
      ]_vars

\* the only option of the search (3.00) was selected, add_specific_item
\* failed, and search_and_add with the rewritten query added a product at
\* 12.00: the cart names the original item at 12.00 and the total grew by it
C26_Witness ==
    /\ pc = "shopper"
    /\ sh.i >= 1
    /\ sh.shopping_list[sh.i] # OptimizedQuery
    /\ calls.success = <<FALSE>>
    /\ calls.hits = 1
    /\ calls.choice = <<0>>
    /\ calls.bf = <<[query |-> OptimizedQuery, status |-> "ADDED", price |-> 1200]>>
    /\ calls.last = 1200
    /\ sh.cart # <<>>
    /\ sh.cart[Len(sh.cart)]
         = <<sh.shopping_list[sh.i], " ($", "1", "2", ".", "0", "0", ")">>

\* the fallback has failed and the item is reported missing
C26_FallbackFailed ==
    /\ pc = "shopper"
    /\ sh.i >= 1
    /\ calls.success = <<FALSE>>
    /\ calls.bf # <<>>
    /\ calls.bf[1].status = "NOT_FOUND"
    /\ sh.missing # <<>>
    /\ sh.missing[Len(sh.missing)] = <<sh.shopping_list[sh.i]>>

(* the browser tool on a page of one card with any price text *)

PriceInit ==
    /\ ckpt = NoCheckpoint
    /\ pc = "idle"
    /\ resuming = FALSE
    /\ sh = NoShopper
    /\ browser = [page |-> "open"]
    /\ hist = NoHist
    /\ calls = NoCalls
    /\ other = NoOther
    /\ db = NoDb
    /\ \E price_text \in PriceTexts :
         store = [NoStore EXCEPT !.results = <<Card(<<"Gala Apples">>, price_text)>>]

PriceNext ==
    \/ ScrapeOptions
    \/ BruteForceAdd
    \/ NextSearch

PriceSpec == PriceInit /\ [][PriceNext]_vars

\* the price text of the card shown
ShownPrice == store.results[1].price_text

\* the amount (in cents) a price text stands for: the text without "$" and
\* "," read as a decimal number, and 0 when it is no number
PriceOf(price_text) ==
    IF FloatOk(CleanPrice(price_text)) THEN FloatCents(CleanPrice(price_text))
    ELSE 0

\* C27: the numeric price of a candidate is its price text without the
\* currency sign and the thousands separators, read as a non-negative
\* decimal ("$1,234.56" is 1234.56), and 0.0 when the text cannot be read:
\* search_and_get_options returns the card as an option with that price and
\* search_and_add adds it at that price; the card is never dropped.
C27_PriceParsed ==
    /\ store.ret.op = "search_and_get_options" =>
          /\ Len(store.ret.options) = 1
          /\ store.ret.options[1].price = PriceOf(ShownPrice)
    /\ store.ret.op = "search_and_add" =>
          /\ store.ret.bf_result.status = "ADDED"
          /\ store.ret.bf_result.price = PriceOf(ShownPrice)
    /\ (store.ret.op # "none" /\ ShownPrice = ThousandsText) =>
          PriceOf(ShownPrice) = 123456

\* what the code keeps of C27: search_and_add always adds the card, at the
\* price read or at 0; search_and_get_options returns the card with the
\* price read when its text holds "$" and is a number, with 0 when it holds
\* no "$", and returns no option when it holds "$" and is no number
C27_PriceKept ==
    /\ store.ret.op = "search_and_add" =>
          /\ store.ret.bf_result.status = "ADDED"
          /\ store.ret.bf_result.price = PriceOf(ShownPrice)
    /\ store.ret.op = "search_and_get_options" =>
          IF ~Contains(ShownPrice, "$")
          THEN /\ Len(store.ret.options) = 1
               /\ store.ret.options[1].price = 0
          ELSE IF FloatOk(CleanPrice(ShownPrice))
          THEN /\ Len(store.ret.options) = 1
               /\ store.ret.options[1].price = PriceOf(ShownPrice)
          ELSE store.ret.options = <<>>
    /\ (store.ret.op # "none" /\ ShownPrice = ThousandsText) =>
          PriceOf(ShownPrice) = 123456

\* the card priced "$1 5" has been searched for and no option was returned
C27_CandidateDropped ==
    /\ store.ret.op = "search_and_get_options"
    /\ ShownPrice = <<"$", "1", " ", "5">>
    /\ store.ret.options = <<>>

\* C28: when add_specific_item succeeds, the entry appended to cart_items
\* shows the title and the price of the card that was clicked, the total
\* grows by the price of that card, and that card is the one shown to the
\* selection under the index it gave; also when cards of the page were
\* skipped while the options were built.
C28_SameResult ==
    [][ (ItemStep /\ calls'.success = <<TRUE>>) =>
          LET card == calls'.put[1]
          IN  /\ ~ScrapeRaises(card)
              /\ sh'.cart = Append(sh.cart, SmartCartEntry(Option(calls'.choice[1], card)))
              /\ sh'.current_total
                   = sh.current_total + Option(calls'.choice[1], card).price
      ]_vars

\* the selection gave index 1 on a page whose card 0 was skipped: the card
\* clicked is Ground Beef (12.00) and the cart shows Loose Carrots at 0.00
C28_Mismatch ==
    /\ pc = "shopper"
    /\ calls.success = <<TRUE>>
    /\ calls.choice = <<1>>
    /\ calls.put = <<BeefCard>>
    /\ sh.cart # <<>>
    /\ sh.cart[Len(sh.cart)] = SmartCartEntry(Option(2, UnpricedCard))
    /\ calls.last = 0

\* the place of a catalog call in the order search, addToCart, searchAndAdd
CallRank(call) ==
    IF call = "search" THEN 1 ELSE IF call = "addToCart" THEN 2 ELSE 3

\* the number of calls of one kind in a trail
CallsOf(trail, kind) == Len(SelectSeq(trail, LAMBDA c : c = kind))

\* C29: an iteration of the loop makes at most two searches, at most one
\* add_specific_item call and at most one search_and_add call, in that
\* order; add_specific_item only after a search that returned options and a
\* selection that is the index of one, search_and_add only after a failed
\* add_specific_item; the items are handled one after the other, each
\* recorded before the next one's calls; and an execution makes at most
\* 4 * len(shopping_list) + 1 catalog calls, the hand-off included.
C29_CallBudget ==
    [][ /\ ItemStep =>
              /\ CallsOf(calls'.trail, "search") <= 2
              /\ CallsOf(calls'.trail, "addToCart") <= 1
              /\ CallsOf(calls'.trail, "searchAndAdd") <= 1
              /\ \A j, k \in 1..Len(calls'.trail) :
                    j < k => CallRank(calls'.trail[j]) <= CallRank(calls'.trail[k])
              /\ \A k \in 1..Len(calls'.trail) :
                    calls'.trail[k] \in {"search", "addToCart", "searchAndAdd"}
              /\ CallsOf(calls'.trail, "addToCart") = 1 =>
                    /\ calls'.hits > 0
                    /\ calls'.choice # <<>>
                    /\ calls'.choice[1] >= 0
                    /\ calls'.choice[1] < calls'.hits
              /\ CallsOf(calls'.trail, "searchAndAdd") = 1 =>
                    /\ CallsOf(calls'.trail, "addToCart") = 1
                    /\ calls'.success = <<FALSE>>
              /\ Len(calls.log) = sh.i
              /\ calls'.log[Len(calls'.log)].item = StepItem
              /\ calls'.n = calls.n + Len(calls'.trail)
        /\ pc = "shopper" => calls'.n <= 4 * Len(sh.shopping_list) + 1
      ]_vars

\* an execution on a list of two items has returned after nine catalog
\* calls: two searches, a failed add and a fallback for each item, and the
\* hand-off
C29_Witness ==
    /\ ShopperDone
    /\ Len(sh.shopping_list) = 2
    /\ Len(calls.log) = 2
    /\ calls.n = 9
    /\ calls.checkout = 1

\* C30: every catalog call shopper_node issues (search, add_specific_item,
\* search_and_add, trigger_checkout) is made while the browser session is
\* open, that is started and not closed since, over every sequence of UI
\* actions; shopper_node starts the session before its first call whenever
\* it is not open.
C30_SessionOpen ==
    [][ calls'.n > calls.n => browser.page = "open" ]_vars

\* what the code keeps of C30: catalog calls are never made on a browser
\* that was never started
C30_SessionStarted ==
    [][ calls'.n > calls.n => browser.page # "none" ]_vars

\* after Close and a new plan, shopper_node has made a catalog call on the
\* closed browser
C30_ClosedCall ==
    /\ browser.page = "closed"
    /\ calls.n > 0
    /\ Len(ckpt.values.messages) = 2

====
